---- MODULE Spec2Model ----
(***************************************************************************)
(* Similarity graph construction and connected-component clustering of     *)
(* freelancer records (Final/part1/src/algorithms.rs).                     *)
(*                                                                         *)
(* Rust indices are kept as they are: a Vec of length N is a function on   *)
(* 0..N-1 when it is indexed by node (freelancers, adj_list, visited) and  *)
(* a TLA+ sequence of 0-based node indices when it is only pushed to and   *)
(* iterated (a neighbor list, cluster, clusters, queue).                   *)
(* A String is a natural number (an injective code of its bytes, 0 the     *)
(* empty string): the code only ever compares strings with ==.             *)
(* An f32 in [0, 2) is the integer number of 2^-26 it holds.               *)
(***************************************************************************)
EXTENDS Integers, Sequences, FiniteSets, TLC

VARIABLES
    pc,           \* position of the running call
    a, b,         \* arguments of a direct shared_attributes call
    count,        \* shared_attributes: the value it returned
    freelancers,  \* the record slice given to build_collaboration_graph
    adj_list,     \* the adjacency list (built, or given to find_connected_components)
    visited,      \* find_connected_components: let mut visited
    clusters,     \* find_connected_components: let mut clusters
    cluster,      \* find_connected_components: let mut cluster
    queue,        \* find_connected_components: let mut queue
    node,         \* find_connected_components: for node in 0..adj_list.len()
    current,      \* find_connected_components: while let Some(current)
    idx,          \* position of `for &neighbor in &adj_list[current]` (1-based)
    result,       \* what the caller of find_connected_components received
    error         \* the panic message the caller's thread ended with, "" if none

vars == <<pc, a, b, count, freelancers, adj_list, visited, clusters, cluster,
          queue, node, current, idx, result, error>>

(***************************************************************************)
(* Bounds of the model.                                                    *)
(***************************************************************************)
\* number of distinct strings an attribute takes in a direct scorer call
NumValues == 2
\* largest number of records / nodes
MaxN == 3
\* largest total number of neighbor-list entries of a hand-made adjacency list
MaxEntries == 4

(***************************************************************************)
(* f32 arithmetic (IEEE 754 binary32, round to nearest, ties to even) on   *)
(* the values the scorer meets: non-negative, below 2.0.                   *)
(***************************************************************************)
\* bits of an f32 significand, hidden bit included
MantissaBits == 24
\* the model's unit is 2^-FracBits: every f32 in [2^-3, 2) is a multiple of it
FracBits == 26

RECURSIVE Pow2(_)
Pow2(n) == IF n = 0 THEN 1 ELSE 2 * Pow2(n - 1)

\* the first significand that does not fit, and 1.0 in units
SignificandEnd == Pow2(MantissaBits)
One == Pow2(FracBits)

\* distance, in units, between neighbouring f32 values around v units
RECURSIVE Spacing(_)
Spacing(v) == IF v < SignificandEnd THEN 1 ELSE 2 * Spacing(v \div 2)

\* the f32 nearest to num/den units (ties to the even significand)
RoundToF32(num, den) ==
    LET q  == Spacing(num \div den)
        dq == den * q
        m  == num \div dq
        r  == num % dq
        up == (2 * r > dq) \/ (2 * r = dq /\ m % 2 = 1)
    IN  (IF up THEN m + 1 ELSE m) * q

\* a decimal literal n/d read as f32
F32Lit(n, d) == RoundToF32(n * One, d)

\* x + y in f32
F32Add(x, y) == RoundToF32(x + y, 1)

(***************************************************************************)
(* data_loader.rs: struct Freelancer                                       *)
(***************************************************************************)
AttrValues == 0 .. (NumValues - 1)

Freelancer ==
    [id : {1, 2}, job_category : AttrValues, platform : AttrValues,
     client_region : AttrValues, experience_level : AttrValues,
     earnings_usd : {0, 50}, hourly_rate : {0, 20}]

NoFreelancer ==
    [id |-> 0, job_category |-> 0, platform |-> 0, client_region |-> 0,
     experience_level |-> 0, earnings_usd |-> 0, hourly_rate |-> 0]

(***************************************************************************)
(* algorithms.rs: shared_attributes                                        *)
(***************************************************************************)
\* the literals of lines 64-67 and of line 48
JobCategoryWeight == F32Lit(3, 10)
PlatformWeight == F32Lit(1, 4)
ClientRegionWeight == F32Lit(1, 4)
ExperienceLevelWeight == F32Lit(1, 5)
Threshold == F32Lit(7, 10)

\* a faulty scorer: the platform of a is compared with the client region of b
shared_attributes_crossed(x, y) ==
    LET c0 == 0
        c1 == IF x.job_category = y.job_category THEN F32Add(c0, JobCategoryWeight) ELSE c0
        c2 == IF x.platform = y.client_region THEN F32Add(c1, PlatformWeight) ELSE c1
        c3 == IF x.client_region = y.client_region THEN F32Add(c2, ClientRegionWeight) ELSE c2
        c4 == IF x.experience_level = y.experience_level THEN F32Add(c3, ExperienceLevelWeight) ELSE c3
    IN  c4

\* a faulty scorer: the weights of job category and experience level are exchanged
shared_attributes_reweighted(x, y) ==
    LET c0 == 0
        c1 == IF x.job_category = y.job_category THEN F32Add(c0, ExperienceLevelWeight) ELSE c0
        c2 == IF x.platform = y.platform THEN F32Add(c1, PlatformWeight) ELSE c1
        c3 == IF x.client_region = y.client_region THEN F32Add(c2, ClientRegionWeight) ELSE c2
        c4 == IF x.experience_level = y.experience_level THEN F32Add(c3, JobCategoryWeight) ELSE c3
    IN  c4

shared_attributes(x, y) ==
    LET c0 == 0
        c1 == IF x.job_category = y.job_category THEN F32Add(c0, JobCategoryWeight) ELSE c0
        c2 == IF x.platform = y.platform THEN F32Add(c1, PlatformWeight) ELSE c1
        c3 == IF x.client_region = y.client_region THEN F32Add(c2, ClientRegionWeight) ELSE c2
        c4 == IF x.experience_level = y.experience_level THEN F32Add(c3, ExperienceLevelWeight) ELSE c3
    IN  c4

(***************************************************************************)
(* A direct call of the scorer on two records.                             *)
(***************************************************************************)
NoCall ==
    /\ freelancers = <<>> /\ adj_list = <<>> /\ visited = <<>>
    /\ clusters = <<>> /\ cluster = <<>> /\ queue = <<>>
    /\ node = 0 /\ current = 0 /\ idx = 0 /\ result = <<>> /\ error = ""

InitScore ==
    /\ pc = "call_score"
    /\ a \in Freelancer
    /\ b \in Freelancer
    /\ count = 0
    /\ NoCall

Score ==
    /\ pc = "call_score"
    /\ count' = shared_attributes(a, b)
    /\ pc' = "score_done"
    /\ UNCHANGED <<a, b, freelancers, adj_list, visited, clusters, cluster,
                   queue, node, current, idx, result, error>>

NextScore == Score

SpecScore == InitScore /\ [][NextScore]_vars

(***************************************************************************)
(* algorithms.rs: find_connected_components, step by step                  *)
(***************************************************************************)
\* adj_list.len()
Size(adj) == Cardinality(DOMAIN adj)

\* lines 25-28 without line 26: the neighbor is queued but not marked
DiscoverUnmarked(vis, q, neighbor) ==
    IF ~vis[neighbor]
    THEN [visited |-> vis, queue |-> Append(q, neighbor)]
    ELSE [visited |-> vis, queue |-> q]

\* lines 25-28: if !visited[neighbor] { visited[neighbor] = true; queue.push_back(neighbor); }
Discover(vis, q, neighbor) ==
    IF ~vis[neighbor]
    THEN [visited |-> [vis EXCEPT ![neighbor] = TRUE], queue |-> Append(q, neighbor)]
    ELSE [visited |-> vis, queue |-> q]

\* lines 12-13: the locals of a fresh call
CallFind ==
    /\ pc = "call_find"
    /\ visited' = [i \in DOMAIN adj_list |-> FALSE]
    /\ clusters' = <<>>
    /\ node' = 0
    /\ pc' = "loop"
    /\ UNCHANGED <<a, b, count, freelancers, adj_list, cluster, queue, current,
                   idx, result, error>>

\* lines 15-19 without line 20: the start node is queued but not marked
StartClusterUnmarked ==
    /\ pc = "loop"
    /\ node < Size(adj_list)
    /\ ~visited[node]
    /\ cluster' = <<>>
    /\ queue' = <<node>>
    /\ pc' = "bfs"
    /\ UNCHANGED <<a, b, count, freelancers, adj_list, visited, clusters, node,
                   current, idx, result, error>>

\* lines 15-20: the next node is unvisited and starts a cluster
StartCluster ==
    /\ pc = "loop"
    /\ node < Size(adj_list)
    /\ ~visited[node]
    /\ cluster' = <<>>
    /\ queue' = <<node>>
    /\ visited' = [visited EXCEPT ![node] = TRUE]
    /\ pc' = "bfs"
    /\ UNCHANGED <<a, b, count, freelancers, adj_list, clusters, node, current,
                   idx, result, error>>

\* lines 15-16: the next node is already visited
SkipNode ==
    /\ pc = "loop"
    /\ node < Size(adj_list)
    /\ visited[node]
    /\ node' = node + 1
    /\ UNCHANGED <<pc, a, b, count, freelancers, adj_list, visited, clusters,
                   cluster, queue, current, idx, result, error>>

\* lines 22-24 with pop_back in place of pop_front: the queue is used as a stack
DequeueBack ==
    /\ pc = "bfs"
    /\ queue # <<>>
    /\ current' = queue[Len(queue)]
    /\ queue' = SubSeq(queue, 1, Len(queue) - 1)
    /\ cluster' = Append(cluster, queue[Len(queue)])
    /\ idx' = 1
    /\ pc' = "scan"
    /\ UNCHANGED <<a, b, count, freelancers, adj_list, visited, clusters, node,
                   result, error>>

\* lines 22-24: pop the front of the queue into the cluster, begin its neighbor list
Dequeue ==
    /\ pc = "bfs"
    /\ queue # <<>>
    /\ current' = Head(queue)
    /\ queue' = Tail(queue)
    /\ cluster' = Append(cluster, Head(queue))
    /\ idx' = 1
    /\ pc' = "scan"
    /\ UNCHANGED <<a, b, count, freelancers, adj_list, visited, clusters, node,
                   result, error>>

\* lines 24-29 with a break after the first neighbor
ScanNeighborOnce ==
    /\ pc = "scan"
    /\ idx <= Len(adj_list[current])
    /\ adj_list[current][idx] < Size(visited)
    /\ LET d == Discover(visited, queue, adj_list[current][idx])
       IN  /\ visited' = d.visited
           /\ queue' = d.queue
    /\ idx' = Len(adj_list[current]) + 1
    /\ UNCHANGED <<pc, a, b, count, freelancers, adj_list, clusters, cluster,
                   node, current, result, error>>

\* lines 24-29: one neighbor whose index visited[] holds
ScanNeighbor ==
    /\ pc = "scan"
    /\ idx <= Len(adj_list[current])
    /\ adj_list[current][idx] < Size(visited)
    /\ LET d == Discover(visited, queue, adj_list[current][idx])
       IN  /\ visited' = d.visited
           /\ queue' = d.queue
    /\ idx' = idx + 1
    /\ UNCHANGED <<pc, a, b, count, freelancers, adj_list, clusters, cluster,
                   node, current, result, error>>

\* line 25: visited[neighbor] with neighbor >= visited.len() panics; the call
\* unwinds, its locals are dropped and the caller receives nothing
IndexPanic ==
    /\ pc = "scan"
    /\ idx <= Len(adj_list[current])
    /\ adj_list[current][idx] >= Size(visited)
    /\ pc' = "panicked"
    /\ error' = "index out of bounds"
    /\ UNCHANGED <<a, b, count, freelancers, adj_list, visited, clusters,
                   cluster, queue, node, current, idx, result>>

\* line 29: the neighbor list is exhausted
EndScan ==
    /\ pc = "scan"
    /\ idx > Len(adj_list[current])
    /\ pc' = "bfs"
    /\ UNCHANGED <<a, b, count, freelancers, adj_list, visited, clusters,
                   cluster, queue, node, current, idx, result, error>>

\* lines 22, 31 with the cluster inserted at the front of clusters
PushClusterFront ==
    /\ pc = "bfs"
    /\ queue = <<>>
    /\ clusters' = <<cluster>> \o clusters
    /\ node' = node + 1
    /\ pc' = "loop"
    /\ UNCHANGED <<a, b, count, freelancers, adj_list, visited, cluster, queue,
                   current, idx, result, error>>

\* lines 22, 31: the queue is empty, the cluster is complete
PushCluster ==
    /\ pc = "bfs"
    /\ queue = <<>>
    /\ clusters' = Append(clusters, cluster)
    /\ node' = node + 1
    /\ pc' = "loop"
    /\ UNCHANGED <<a, b, count, freelancers, adj_list, visited, cluster, queue,
                   current, idx, result, error>>

\* lines 15, 34 with the range 0..len-1: the last node is never looked at
ReturnEarly ==
    /\ pc = "loop"
    /\ node >= Size(adj_list) - 1
    /\ result' = clusters
    /\ pc' = "done"
    /\ UNCHANGED <<a, b, count, freelancers, adj_list, visited, clusters,
                   cluster, queue, node, current, idx, error>>

\* lines 15, 34: the node range is exhausted, clusters is returned
Return ==
    /\ pc = "loop"
    /\ node = Size(adj_list)
    /\ result' = clusters
    /\ pc' = "done"
    /\ UNCHANGED <<a, b, count, freelancers, adj_list, visited, clusters,
                   cluster, queue, node, current, idx, error>>

(***************************************************************************)
(* A direct call of find_connected_components on a hand-made adjacency     *)
(* list: any in-range entries, duplicated or one-directional ones included.*)
(***************************************************************************)
RECURSIVE SeqsOfLen(_, _)
SeqsOfLen(S, k) ==
    IF k = 0 THEN {<<>>}
    ELSE {Append(s, x) : s \in SeqsOfLen(S, k - 1), x \in S}

SeqsUpTo(S, k) == UNION {SeqsOfLen(S, j) : j \in 0 .. k}

\* the sequences of n neighbor lists over S holding at most e entries in all
RECURSIVE AdjSeqs(_, _, _)
AdjSeqs(n, S, e) ==
    IF n = 0 THEN {<<>>}
    ELSE UNION {{<<l>> \o rest : rest \in AdjSeqs(n - 1, S, e - Len(l))} :
                l \in SeqsUpTo(S, e)}

ZeroBased(s) == [i \in 0 .. (Len(s) - 1) |-> s[i + 1]]

AdjLists(n, S, e) == {ZeroBased(s) : s \in AdjSeqs(n, S, e)}

NoScore == a = NoFreelancer /\ b = NoFreelancer /\ count = 0

FindLocals ==
    /\ visited = <<>> /\ clusters = <<>> /\ cluster = <<>> /\ queue = <<>>
    /\ node = 0 /\ current = 0 /\ idx = 0 /\ result = <<>> /\ error = ""

InitFind ==
    /\ pc = "call_find"
    /\ NoScore
    /\ freelancers = <<>>
    /\ \E n \in 0 .. MaxN : adj_list \in AdjLists(n, 0 .. (n - 1), MaxEntries)
    /\ FindLocals

NextFind ==
    \/ CallFind
    \/ StartCluster
    \/ SkipNode
    \/ Dequeue
    \/ ScanNeighbor
    \/ EndScan
    \/ PushCluster
    \/ Return

SpecFind == InitFind /\ [][NextFind]_vars

\* the call keeps running: single-threaded code with no blocking operation
SpecFindFair == SpecFind /\ WF_vars(NextFind)

\* the same call when the entries may also be n or n + 1, which no node has
InitFindAny ==
    /\ pc = "call_find"
    /\ NoScore
    /\ freelancers = <<>>
    /\ \E n \in 0 .. MaxN : adj_list \in AdjLists(n, 0 .. (n + 1), MaxEntries)
    /\ FindLocals

NextFindAny == NextFind \/ IndexPanic

SpecFindAny == InitFindAny /\ [][NextFindAny]_vars

(***************************************************************************)
(* A direct call of find_connected_components on a symmetric adjacency     *)
(* list: any undirected graph on up to MaxSymN nodes, each neighbor list   *)
(* in ascending order (as build_collaboration_graph leaves it) or in       *)
(* descending order.                                                       *)
(***************************************************************************)
\* largest number of nodes of a symmetric adjacency list
MaxSymN == 4

RECURSIVE Ascending(_)
Ascending(S) ==
    IF S = {} THEN <<>>
    ELSE LET m == CHOOSE x \in S : \A y \in S : x <= y
         IN  <<m>> \o Ascending(S \ {m})

RECURSIVE Descending(_)
Descending(S) ==
    IF S = {} THEN <<>>
    ELSE LET m == CHOOSE x \in S : \A y \in S : x >= y
         IN  <<m>> \o Descending(S \ {m})

\* the symmetric adjacency lists of the undirected graphs on 0..n-1
SymmetricAdjLists(n) ==
    {[i \in 0 .. (n - 1) |->
        LET nb == {j \in 0 .. (n - 1) : <<i, j>> \in E \/ <<j, i>> \in E}
        IN  IF i \in down THEN Descending(nb) ELSE Ascending(nb)] :
     E \in SUBSET {<<i, j>> \in (0 .. (n - 1)) \X (0 .. (n - 1)) : i < j},
     down \in SUBSET (0 .. (n - 1))}

InitFindSym ==
    /\ pc = "call_find"
    /\ NoScore
    /\ freelancers = <<>>
    /\ \E n \in 0 .. MaxSymN : adj_list \in SymmetricAdjLists(n)
    /\ FindLocals

SpecFindSym == InitFindSym /\ [][NextFind]_vars

(***************************************************************************)
(* algorithms.rs: find_connected_components as a function of its argument: *)
(* the three loops of lines 15, 22 and 24, run to their end.  A panic ends *)
(* every loop at once and leaves no cluster list.                          *)
(***************************************************************************)
\* lines 24-29: for &neighbor in &adj_list[current], from position i on
RECURSIVE ScanNeighbors(_, _, _, _)
ScanNeighbors(neighbors, i, vis, q) ==
    IF i > Len(neighbors)
    THEN [visited |-> vis, queue |-> q, panicked |-> FALSE]
    ELSE IF neighbors[i] >= Size(vis)
    THEN [visited |-> vis, queue |-> q, panicked |-> TRUE]
    ELSE LET d == Discover(vis, q, neighbors[i])
         IN  ScanNeighbors(neighbors, i + 1, d.visited, d.queue)

\* lines 22-30: while let Some(current) = queue.pop_front()
RECURSIVE Bfs(_, _, _, _)
Bfs(adj, vis, q, cl) ==
    IF q = <<>>
    THEN [visited |-> vis, cluster |-> cl, panicked |-> FALSE]
    ELSE LET s == ScanNeighbors(adj[Head(q)], 1, vis, Tail(q))
         IN  IF s.panicked
             THEN [visited |-> vis, cluster |-> cl, panicked |-> TRUE]
             ELSE Bfs(adj, s.visited, s.queue, Append(cl, Head(q)))

\* lines 15-33: for node in 0..adj_list.len(), from node nd on
RECURSIVE ForEachNode(_, _, _, _)
ForEachNode(adj, nd, vis, cls) ==
    IF nd >= Size(adj)
    THEN [clusters |-> cls, panicked |-> FALSE]
    ELSE IF vis[nd]
    THEN ForEachNode(adj, nd + 1, vis, cls)
    ELSE LET r == Bfs(adj, [vis EXCEPT ![nd] = TRUE], <<nd>>, <<>>)
         IN  IF r.panicked
             THEN [clusters |-> <<>>, panicked |-> TRUE]
             ELSE ForEachNode(adj, nd + 1, r.visited, Append(cls, r.cluster))

find_connected_components(adj) ==
    ForEachNode(adj, 0, [i \in DOMAIN adj |-> FALSE], <<>>)

(***************************************************************************)
(* algorithms.rs: build_collaboration_graph.  The threshold of line 48 is  *)
(* an argument of BuildGraph; the function itself passes 0.7.              *)
(***************************************************************************)
\* a faulty test: pairs scoring exactly the threshold are linked too
LinkedFrom(score, t) == score >= t

\* a faulty test: the comparison is reversed
LinkedBelow(score, t) == score < t

\* line 48: shared_attributes(..) > 0.7
Linked(score, t) == score > t

\* lines 47-52 without line 50: only adj_list[i] receives the pair
RECURSIVE InnerLoopOneWay(_, _, _, _, _)
InnerLoopOneWay(fl, t, i, j, adj) ==
    IF j >= Size(fl) THEN adj
    ELSE InnerLoopOneWay(fl, t, i, j + 1,
             IF Linked(shared_attributes(fl[i], fl[j]), t)
             THEN [adj EXCEPT ![i] = Append(@, j)]
             ELSE adj)

\* lines 47-52: for j in (i + 1)..n, from j on
RECURSIVE InnerLoop(_, _, _, _, _)
InnerLoop(fl, t, i, j, adj) ==
    IF j >= Size(fl) THEN adj
    ELSE InnerLoop(fl, t, i, j + 1,
             IF Linked(shared_attributes(fl[i], fl[j]), t)
             THEN [adj EXCEPT ![i] = Append(@, j), ![j] = Append(@, i)]
             ELSE adj)

\* lines 46-53: for i in 0..n, from i on
RECURSIVE OuterLoop(_, _, _, _)
OuterLoop(fl, t, i, adj) ==
    IF i >= Size(fl) THEN adj
    ELSE OuterLoop(fl, t, i + 1, InnerLoop(fl, t, i, i + 1, adj))

BuildGraph(fl, t) == OuterLoop(fl, t, 0, [k \in DOMAIN fl |-> <<>>])

build_collaboration_graph(fl) == BuildGraph(fl, Threshold)

(***************************************************************************)
(* main.rs: build_collaboration_graph, then find_connected_components.     *)
(*                                                                         *)
(* The record sequences: the scorer reads the strings of two records only  *)
(* to compare them, attribute by attribute, so a sequence is decided by    *)
(* which records agree on which attribute.  Every such pattern of N        *)
(* records is drawn once, with the strings of each attribute numbered in   *)
(* the order of their first record (record 0 holds string 0 throughout).   *)
(***************************************************************************)
\* the labelings of n records: each label is an earlier one or the next unused
RECURSIVE Labelings(_)
Labelings(n) ==
    IF n = 0 THEN {<<>>}
    ELSE UNION {{Append(s, v) : v \in 0 .. Cardinality({s[i] : i \in 1 .. Len(s)})} :
                s \in Labelings(n - 1)}

FreelancerSlices(n) ==
    {[i \in 0 .. (n - 1) |->
        [id |-> i + 1, job_category |-> jc[i + 1], platform |-> pl[i + 1],
         client_region |-> cr[i + 1], experience_level |-> ex[i + 1],
         earnings_usd |-> 0, hourly_rate |-> 0]] :
     jc \in Labelings(n), pl \in Labelings(n), cr \in Labelings(n),
     ex \in Labelings(n)}

\* main.rs line 24
Build ==
    /\ pc = "call_build"
    /\ adj_list' = build_collaboration_graph(freelancers)
    /\ pc' = "call_find"
    /\ UNCHANGED <<a, b, count, freelancers, visited, clusters, cluster, queue,
                   node, current, idx, result, error>>

Init ==
    /\ pc = "call_build"
    /\ NoScore
    /\ \E n \in 0 .. MaxN : freelancers \in FreelancerSlices(n)
    /\ adj_list = <<>>
    /\ FindLocals

Next == Build \/ NextFind

Spec == Init /\ [][Next]_vars

(***************************************************************************)
(* Spec scenario 1: four records, 0 and 1 equal on all four attributes,    *)
(* 2 and 3 equal on none, 1 and 2 equal on none.                           *)
(***************************************************************************)
Attributes == {"job_category", "platform", "client_region", "experience_level"}

\* the attributes on which two records hold equal strings
Matching(x, y) == {f \in Attributes : x[f] = y[f]}

InitScenario1 ==
    /\ pc = "call_build"
    /\ NoScore
    /\ freelancers \in {f \in FreelancerSlices(4) :
                            /\ Matching(f[0], f[1]) = Attributes
                            /\ Matching(f[2], f[3]) = {}
                            /\ Matching(f[1], f[2]) = {}}
    /\ adj_list = <<>>
    /\ FindLocals

SpecScenario1 == InitScenario1 /\ [][Next]_vars

(***************************************************************************)
(* Vocabulary of the properties.                                           *)
(***************************************************************************)
Elems(s) == {s[i] : i \in 1 .. Len(s)}

InRange(adj) == \A i \in DOMAIN adj : Elems(adj[i]) \subseteq DOMAIN adj

Symmetric(adj) ==
    \A i, j \in DOMAIN adj : j \in Elems(adj[i]) <=> i \in Elems(adj[j])

\* the directed links of an adjacency list
Edges(adj) == {<<i, j>> \in (DOMAIN adj) \X (DOMAIN adj) : j \in Elems(adj[i])}

\* how many times v is listed in a cluster list
Occurrences(cls, v) ==
    Cardinality(UNION {{<<c, k>> : k \in {k \in 1 .. Len(cls[c]) : cls[c][k] = v}} :
                       c \in 1 .. Len(cls)})

SameCluster(cls, i, j) ==
    \E c \in 1 .. Len(cls) : i \in Elems(cls[c]) /\ j \in Elems(cls[c])

\* the nodes a path of links reaches from the nodes of S (S included)
RECURSIVE ReachFrom(_, _)
ReachFrom(adj, S) ==
    LET T == S \cup UNION {Elems(adj[i]) : i \in S}
    IN  IF T = S THEN S ELSE ReachFrom(adj, T)

\* the claimed weights, in twentieths: 0.30, 0.25, 0.25, 0.20
Sum20(S) ==
    (IF "job_category" \in S THEN 6 ELSE 0) + (IF "platform" \in S THEN 5 ELSE 0)
    + (IF "client_region" \in S THEN 5 ELSE 0)
    + (IF "experience_level" \in S THEN 4 ELSE 0)

\* the 16 sums of claimed weights, as f32
SubsetSums == {F32Lit(Sum20(S), 20) : S \in SUBSET Attributes}

\* build_collaboration_graph has just returned adj_list
Built == pc = "call_find"

(***************************************************************************)
(* Properties.                                                             *)
(***************************************************************************)

\* C1 (SpecFind): for every adjacency list with in-range entries, duplicated
\* or one-directional ones included, the returned clusters are a partition
\* of 0..N-1: no cluster is empty, every index is listed exactly once in
\* all, nothing else is listed, and N = 0 returns the empty list.
C1_Partition ==
    pc = "done" =>
        /\ \A c \in 1 .. Len(result) : result[c] # <<>>
        /\ \A v \in DOMAIN adj_list : Occurrences(result, v) = 1
        /\ \A c \in 1 .. Len(result) : Elems(result[c]) \subseteq DOMAIN adj_list
        /\ Size(adj_list) = 0 => result = <<>>

\* C1: a finished call on three nodes whose links are one-directional and
\* listed twice, which still yields more than one cluster
C1_Witness ==
    /\ pc = "done"
    /\ Size(adj_list) = 3
    /\ ~Symmetric(adj_list)
    /\ \E i \in DOMAIN adj_list : Len(adj_list[i]) > Cardinality(Elems(adj_list[i]))
    /\ Len(result) = 2

\* C2 (SpecFind): for a symmetric in-range adjacency list, two indices are in
\* the same returned cluster exactly when a path of links joins them, and
\* there are as many clusters as connected components.
C2_Components ==
    (pc = "done" /\ Symmetric(adj_list)) =>
        /\ \A i, j \in DOMAIN adj_list :
              SameCluster(result, i, j) <=> j \in ReachFrom(adj_list, {i})
        /\ Len(result) =
              Cardinality({ReachFrom(adj_list, {i}) : i \in DOMAIN adj_list})

\* C2: a finished call on a symmetric list of three nodes where two nodes
\* without a direct link share the only cluster
C2_Witness ==
    /\ pc = "done"
    /\ Symmetric(adj_list)
    /\ Size(adj_list) = 3
    /\ Len(result) = 1
    /\ \E i, j \in DOMAIN adj_list :
          /\ i # j
          /\ j \notin Elems(adj_list[i])
          /\ SameCluster(result, i, j)

\* C3 (Spec): in the built adjacency list, for distinct i and j, j is in list
\* i exactly when the score of records i and j is strictly above 0.7; a
\* pair matching on platform, client region and experience level only
\* scores exactly 0.70 and gets no edge, a pair matching on job category and
\* platform only scores 0.55 and gets no edge, and a pair matching on all
\* four attributes gets an edge in both directions.
C3_EdgeIffAboveThreshold ==
    Built =>
        \A i, j \in DOMAIN freelancers :
            i # j =>
                LET score == shared_attributes(freelancers[i], freelancers[j])
                    m == Matching(freelancers[i], freelancers[j])
                IN  /\ j \in Elems(adj_list[i]) <=> score > F32Lit(7, 10)
                    /\ m = {"platform", "client_region", "experience_level"} =>
                          score = F32Lit(7, 10) /\ j \notin Elems(adj_list[i])
                    /\ m = {"job_category", "platform"} =>
                          score = F32Lit(11, 20) /\ j \notin Elems(adj_list[i])
                    /\ m = Attributes =>
                          j \in Elems(adj_list[i]) /\ i \in Elems(adj_list[j])

\* C3: a built graph holding a pair that scores exactly 0.70 and a pair that
\* matches on all four attributes
C3_Witness ==
    /\ Built
    /\ \E i, j \in DOMAIN freelancers :
          Matching(freelancers[i], freelancers[j])
              = {"platform", "client_region", "experience_level"}
    /\ \E i, j \in DOMAIN freelancers :
          i # j /\ Matching(freelancers[i], freelancers[j]) = Attributes

\* C4 (Spec): the built adjacency list has exactly one neighbor list per
\* record, holds only indices 0..N-1, is symmetric and has no self-loop.
C4_WellFormedGraph ==
    Built =>
        /\ DOMAIN adj_list = DOMAIN freelancers
        /\ Size(adj_list) = Size(freelancers)
        /\ InRange(adj_list)
        /\ Symmetric(adj_list)
        /\ \A i \in DOMAIN adj_list : i \notin Elems(adj_list[i])

\* C4: a built graph of three records with a linked and an unlinked pair
C4_Witness ==
    /\ Built
    /\ Size(freelancers) = 3
    /\ \E i, j \in DOMAIN adj_list : i # j /\ j \in Elems(adj_list[i])
    /\ \E i, j \in DOMAIN adj_list : i # j /\ j \notin Elems(adj_list[i])

\* C5 (SpecScore): the score is the sum of the weights 0.30 (job category),
\* 0.25 (platform), 0.25 (client region), 0.20 (experience level) over
\* exactly the attributes on which the two records hold equal values, two
\* empty values included; it is one of the 16 subset sums, lies in [0, 1],
\* and no id, earnings or hourly rate changes it.
C5_WeightedSum ==
    pc = "score_done" =>
        /\ count = F32Lit(Sum20(Matching(a, b)), 20)
        /\ count \in SubsetSums
        /\ 0 <= count /\ count <= One
        /\ \A i1, i2 \in {1, 2}, e1, e2 \in {0, 50}, h1, h2 \in {0, 20} :
              shared_attributes(
                  [a EXCEPT !.id = i1, !.earnings_usd = e1, !.hourly_rate = h1],
                  [b EXCEPT !.id = i2, !.earnings_usd = e2, !.hourly_rate = h2])
                  = count

\* C5: a scored pair with different ids, earnings and rates that matches on
\* job category and on an empty platform only
C5_Witness ==
    /\ pc = "score_done"
    /\ a.id # b.id /\ a.earnings_usd # b.earnings_usd /\ a.hourly_rate # b.hourly_rate
    /\ a.platform = 0 /\ b.platform = 0
    /\ Matching(a, b) = {"job_category", "platform"}
    /\ count = F32Lit(11, 20)

\* C6 (SpecScore): the score is symmetric in its two records.
C6_ScoreSymmetric ==
    pc = "score_done" => count = shared_attributes(b, a)

\* C6: a scored pair of records that match on some attributes and differ on
\* others
C6_Witness ==
    /\ pc = "score_done"
    /\ a.platform # b.platform
    /\ a.client_region = b.client_region
    /\ a.platform = b.client_region
    /\ count > 0

\* C7 (SpecFindAny): when a neighbor list holds an index >= N the call ends
\* with the distinct error "malformed adjacency structure" and returns no
\* cluster list.
C7_MalformedError ==
    (pc \in {"done", "panicked"} /\ ~InRange(adj_list)) =>
        /\ pc = "panicked"
        /\ error = "malformed adjacency structure"
        /\ result = <<>>

\* C8 as stated (SpecScenario1): the four records of scenario 1 yield the
\* clusters [[0,1],[2,3]].
C8_Original ==
    pc = "done" => result = <<<<0, 1>>, <<2, 3>>>>

\* C8 as amended (SpecScenario1): the four records of scenario 1 yield
\* [[0,1],[2],[3]], records 2 and 3 being unlinked, unless record 3 scores
\* above 0.7 with record 0, and then they yield [[0,1,3],[2]].
C8_Scenario1 ==
    pc = "done" =>
        result = IF shared_attributes(freelancers[0], freelancers[3]) > F32Lit(7, 10)
                 THEN <<<<0, 1, 3>>, <<2>>>>
                 ELSE <<<<0, 1>>, <<2>>, <<3>>>>

\* C8: scenario 1 finished with record 3 in a cluster of its own
C8_Witness ==
    /\ pc = "done"
    /\ Matching(freelancers[0], freelancers[3]) = {}
    /\ result = <<<<0, 1>>, <<2>>, <<3>>>>

\* the scores of the chain of scenario 4
ChainScores ==
    /\ Size(freelancers) = 3
    /\ shared_attributes(freelancers[0], freelancers[1]) = F32Lit(3, 4)
    /\ shared_attributes(freelancers[1], freelancers[2]) = F32Lit(3, 4)

\* C9 as stated (Spec): three records with score(0,1) = 0.75 and
\* score(1,2) = 0.75 that form a chain have score(0,2) = 0.0 and yield the
\* single cluster [0,1,2].
C9_Original ==
    (pc = "done" /\ ChainScores /\ 2 \notin Elems(adj_list[0])) =>
        /\ shared_attributes(freelancers[0], freelancers[2]) = 0
        /\ result = <<<<0, 1, 2>>>>

\* C9 as amended (Spec): three records with score(0,1) = 0.75 and
\* score(1,2) = 0.75 have score(0,2) = 0.5, 0.75 or 1.0, never 0.0; with
\* score(0,2) = 0.5 records 0 and 2 have no edge and the single cluster
\* [0,1,2] is returned, 0 and 2 joined through 1 only.
C9_Chain ==
    (pc = "done" /\ ChainScores) =>
        LET s02 == shared_attributes(freelancers[0], freelancers[2])
        IN  /\ s02 \in {F32Lit(1, 2), F32Lit(3, 4), F32Lit(1, 1)}
            /\ s02 = F32Lit(1, 2) =>
                  /\ 2 \notin Elems(adj_list[0]) /\ 0 \notin Elems(adj_list[2])
                  /\ adj_list[1] = <<0, 2>>
                  /\ result = <<<<0, 1, 2>>>>

\* C9: the chain finished, records 0 and 2 scoring 0.5
C9_Witness ==
    /\ pc = "done"
    /\ ChainScores
    /\ shared_attributes(freelancers[0], freelancers[2]) = F32Lit(1, 2)
    /\ result = <<<<0, 1, 2>>>>

\* the thresholds 0.0, 0.1, .. 1.0, the 0.7 of line 48 among them
ThresholdCount == 11
ThresholdAt(k) == F32Lit(k - 1, 10)

\* what the builder and the finder return for each of the first k thresholds
RECURSIVE RunsUpTo(_)
RunsUpTo(k) ==
    IF k = 0 THEN <<>>
    ELSE LET adj == BuildGraph(freelancers, ThresholdAt(k))
         IN  Append(RunsUpTo(k - 1),
                    [t |-> ThresholdAt(k),
                     edges |-> Edges(adj),
                     clusters |-> {Elems(c) :
                                   c \in Elems(find_connected_components(adj).clusters)}])

\* C10 (Spec): with the threshold as an argument of the builder, for
\* thresholds t1 <= t2 every edge built with t2 is built with t1, and every
\* cluster found with t2 lies within one cluster found with t1.
C10_ThresholdMonotone ==
    pc = "call_find" =>
        LET run == RunsUpTo(ThresholdCount)
        IN  /\ \E k \in 1 .. ThresholdCount :
                  run[k].t = Threshold /\ run[k].edges = Edges(adj_list)
            /\ \A k1, k2 \in 1 .. ThresholdCount :
                  run[k1].t <= run[k2].t =>
                      /\ run[k2].edges \subseteq run[k1].edges
                      /\ \A c2 \in run[k2].clusters :
                            \E c1 \in run[k1].clusters : c2 \subseteq c1

\* C10: a built graph that loses an edge and splits a cluster when the
\* threshold rises from 0.5 to 0.7
C10_Witness ==
    /\ pc = "call_find"
    /\ Edges(adj_list) # {}
    /\ Edges(adj_list) # Edges(BuildGraph(freelancers, F32Lit(1, 2)))
    /\ Len(find_connected_components(BuildGraph(freelancers, F32Lit(1, 2))).clusters)
          < Len(find_connected_components(adj_list).clusters)

\* the least element of a non-empty set of indices
Least(S) == CHOOSE x \in S : \A y \in S : x <= y

\* C11 (SpecFindSym): for a symmetric in-range adjacency list the clusters
\* are returned in the order of their smallest member: each cluster starts
\* with its least index, the first elements of successive clusters strictly
\* increase, the first cluster starts with 0, and the list returned is the
\* one the function of the adjacency list gives, order included.
C11_OrderedBySmallest ==
    (pc = "done" /\ Symmetric(adj_list)) =>
        /\ \A c \in 1 .. Len(result) :
              result[c] # <<>> /\ result[c][1] = Least(Elems(result[c]))
        /\ \A c \in 1 .. (Len(result) - 1) : result[c][1] < result[c + 1][1]
        /\ Size(adj_list) > 0 => result[1][1] = 0
        /\ result = find_connected_components(adj_list).clusters

\* C11: a finished call that returned two clusters, the first of which
\* lists a larger index before a smaller one after its least
C11_Witness ==
    /\ pc = "done"
    /\ Symmetric(adj_list)
    /\ Len(result) = 2
    /\ \E k \in 2 .. (Len(result[1]) - 1) : result[1][k] > result[1][k + 1]

\* the call is between the creation of its locals and its return
InCall == pc \in {"loop", "bfs", "scan", "done"}

\* the cluster being filled, if any (it is moved into clusters at line 31)
LiveCluster == IF pc \in {"bfs", "scan"} THEN cluster ELSE <<>>

\* how many times v is listed in a sequence
CountIn(s, v) == Cardinality({k \in 1 .. Len(s) : s[k] = v})

\* the three states of a node
Unvisited(v) == ~visited[v]
Queued(v) == visited[v] /\ v \in Elems(queue)
Visited(v) ==
    visited[v] /\ (CountIn(LiveCluster, v) + Occurrences(clusters, v) > 0)

\* 0 for Unvisited, 1 for Queued, 2 for Visited
Rank(v) == IF Visited(v) THEN 2 ELSE IF Queued(v) THEN 1 ELSE 0

NodeStatesExclusive ==
    /\ DOMAIN visited = DOMAIN adj_list
    /\ \A v \in DOMAIN adj_list :
          /\ Cardinality({st \in {"U", "Q", "V"} :
                            \/ st = "U" /\ Unvisited(v)
                            \/ st = "Q" /\ Queued(v)
                            \/ st = "V" /\ Visited(v)}) = 1
          /\ CountIn(queue, v) + CountIn(LiveCluster, v)
                + Occurrences(clusters, v) = (IF visited[v] THEN 1 ELSE 0)
    /\ Elems(queue) \subseteq DOMAIN adj_list
    /\ Len(queue) <= Size(adj_list)

NodeStatesAdvance ==
    (InCall /\ InCall') =>
        \A v \in DOMAIN adj_list :
            Rank(v)' = Rank(v) \/ Rank(v)' = Rank(v) + 1

\* C12 (SpecFind): at every step of a call on an in-range adjacency list each
\* node is in exactly one of Unvisited (marker false), Queued (marker true,
\* in the queue) and Visited (marker true, in a cluster); it is listed once
\* in the queue and the clusters together when its marker is true and not at
\* all otherwise, so the queue never holds a node twice nor more than N
\* nodes; and a step leaves a node where it is or moves it from Unvisited to
\* Queued or from Queued to Visited.
C12_NodeStates ==
    [](InCall => NodeStatesExclusive) /\ [][NodeStatesAdvance]_vars

\* C12: the middle of a traversal, with a node in each of the three states
C12_Witness ==
    /\ pc = "scan"
    /\ \E u, q, v \in DOMAIN adj_list : Unvisited(u) /\ Queued(q) /\ Visited(v)
    /\ ~Symmetric(adj_list)

\* C13 (SpecFindFair): on every in-range adjacency list, cycles and
\* duplicated entries included, the call returns, and when it has returned
\* every node is Visited and the queue is empty.
C13_Terminates ==
    /\ <>(pc = "done")
    /\ [](pc = "done" =>
            /\ \A v \in DOMAIN adj_list : Visited(v) /\ ~Queued(v) /\ ~Unvisited(v)
            /\ queue = <<>>)

\* C13: a returned call on a list with a cycle through three nodes and a
\* duplicated entry
C13_Witness ==
    /\ pc = "done"
    /\ Size(adj_list) = 3
    /\ 1 \in Elems(adj_list[0]) /\ 2 \in Elems(adj_list[1]) /\ 0 \in Elems(adj_list[2])
    /\ \E i \in DOMAIN adj_list : Len(adj_list[i]) > Cardinality(Elems(adj_list[i]))

\* the number of links of a shortest path from the nodes of S to v, S being
\* d links away already; -1 when no path reaches v
RECURSIVE Distance(_, _, _, _)
Distance(adj, S, v, d) ==
    IF v \in S THEN d
    ELSE LET T == S \cup UNION {Elems(adj[i]) : i \in S}
         IN  IF T = S THEN -1 ELSE Distance(adj, T, v, d + 1)

\* C14 (SpecFindSym): within each cluster returned for a symmetric in-range
\* adjacency list the members are in breadth-first discovery order from the
\* first: every member is reachable from it, the shortest-path distance
\* from it never decreases along the list, and every member but the first
\* comes after one of its neighbors.
C14_BreadthFirstOrder ==
    (pc = "done" /\ Symmetric(adj_list)) =>
        \A c \in 1 .. Len(result) :
            LET cl == result[c]
                dist(k) == Distance(adj_list, {cl[1]}, cl[k], 0)
            IN  /\ \A k \in 1 .. Len(cl) : dist(k) >= 0
                /\ \A k \in 1 .. (Len(cl) - 1) : dist(k) <= dist(k + 1)
                /\ \A k \in 2 .. Len(cl) :
                      \E j \in 1 .. (k - 1) : cl[k] \in Elems(adj_list[cl[j]])

\* C14: a returned cluster of four whose members lie 0, 1, 1 and 2 links
\* from the first, the farthest being a neighbor of the second member
C14_Witness ==
    /\ pc = "done"
    /\ Symmetric(adj_list)
    /\ Len(result) = 1
    /\ Len(result[1]) = 4
    /\ Distance(adj_list, {result[1][1]}, result[1][2], 0) = 1
    /\ Distance(adj_list, {result[1][1]}, result[1][3], 0) = 1
    /\ Distance(adj_list, {result[1][1]}, result[1][4], 0) = 2
    /\ result[1][4] \in Elems(adj_list[result[1][2]])
    /\ result[1][4] \notin Elems(adj_list[result[1][3]])

\* C15 (Spec): every edge of the built graph joins two records with equal
\* job category that agree on at least three of the four attributes, and
\* all members of a returned cluster have the same job category.
C15_SameJobCategory ==
    /\ Built =>
          \A i, j \in DOMAIN adj_list :
              j \in Elems(adj_list[i]) =>
                  /\ freelancers[i].job_category = freelancers[j].job_category
                  /\ Cardinality(Matching(freelancers[i], freelancers[j])) >= 3
    /\ pc = "done" =>
          \A c \in 1 .. Len(result) :
              \A i, j \in Elems(result[c]) :
                  freelancers[i].job_category = freelancers[j].job_category

\* C15: a returned cluster of two records that agree on exactly three
\* attributes, beside a record that agrees with them on the other three but
\* has another job category
C15_Witness ==
    /\ pc = "done"
    /\ result = <<<<0, 1>>, <<2>>>>
    /\ Cardinality(Matching(freelancers[0], freelancers[1])) = 3
    /\ Matching(freelancers[0], freelancers[2])
          = {"platform", "client_region", "experience_level"}

====
